---- MODULE Spec2Model ----
(***************************************************************************)
(* The image updater of ARO-HCP (tooling/image-updater): the update run    *)
(* (pkg/updater), the line-based YAML editor (pkg/yaml), the Quay client   *)
(* (pkg/clients, in its two versions) and the configuration (pkg/config).  *)
(*                                                                         *)
(* Text is modelled byte by byte: a string is a sequence of one-character  *)
(* strings, a file is one such sequence with "\n" between its lines.       *)
(***************************************************************************)
EXTENDS Integers, Sequences, FiniteSets, TLC

(***************************************************************************)
(* strings                                                                 *)
(***************************************************************************)

RECURSIVE SplitAcc(_, _, _, _)
SplitAcc(s, sep, i, cur) ==
    IF i > Len(s) THEN <<cur>>
    ELSE IF s[i] = sep THEN <<cur>> \o SplitAcc(s, sep, i + 1, <<>>)
    ELSE SplitAcc(s, sep, i + 1, Append(cur, s[i]))

\* strings.Split(s, sep) for a one-byte separator
Split(s, sep) ==
    SplitAcc(s, sep, 1, <<>>)

RECURSIVE Join(_, _)
\* strings.Join(elems, sep)
Join(elems, sep) ==
    IF Len(elems) = 0 THEN <<>>
    ELSE IF Len(elems) = 1 THEN elems[1]
    ELSE elems[1] \o <<sep>> \o Join(Tail(elems), sep)

\* strings.Index(s, c) for a one-byte c: 0-based, -1 when absent
Index(s, c) ==
    IF \E i \in 1..Len(s) : s[i] = c
    THEN (CHOOSE i \in 1..Len(s) : s[i] = c /\ \A j \in 1..(i - 1) : s[j] # c) - 1
    ELSE -1

\* strings.HasSuffix(s, suffix)
HasSuffix(s, suffix) ==
    /\ Len(s) >= Len(suffix)
    /\ SubSeq(s, Len(s) - Len(suffix) + 1, Len(s)) = suffix

\* the Go slice s[from:] (0-based from)
SliceFrom(s, from) ==
    SubSeq(s, from + 1, Len(s))

\* the Go slice s[:to] (0-based, to excluded)
SliceTo(s, to) ==
    SubSeq(s, 1, to)

(***************************************************************************)
(* yaml.v3: Unmarshal into a yaml.Node tree, for the block and flow        *)
(* constructs the target files use.  Every node carries the 1-based        *)
(* physical line on which it starts.                                       *)
(***************************************************************************)

\* F of the value of e, which is computed once
Let(e, F(_)) ==
    CHOOSE r \in {F(v) : v \in {e}} : TRUE

DocumentNode == "DocumentNode"
SequenceNode == "SequenceNode"
MappingNode  == "MappingNode"
ScalarNode   == "ScalarNode"

\* a yaml.Node
Node(kind, value, line, content) ==
    [Kind |-> kind, Value |-> value, Line |-> line, Content |-> content]

\* the nil *yaml.Node
NilNode ==
    Node("nil", <<>>, 0, <<>>)

\* number of leading spaces of a line
Indent(line) ==
    IF \A i \in 1..Len(line) : line[i] = " " THEN Len(line)
    ELSE (CHOOSE i \in 1..Len(line) : line[i] # " " /\ \A j \in 1..(i - 1) : line[j] = " ") - 1

\* s without its trailing blanks
TrimRight(s) ==
    IF \A i \in 1..Len(s) : s[i] = " " THEN <<>>
    ELSE SubSeq(s, 1, CHOOSE i \in 1..Len(s) : s[i] # " " /\ \A j \in (i + 1)..Len(s) : s[j] = " ")

\* s without its leading blanks
TrimLeft(s) ==
    SubSeq(s, Indent(s) + 1, Len(s))

\* a line without its indentation and trailing blanks
Body(line) ==
    TrimRight(TrimLeft(line))

\* a line that holds a token: not blank, not a comment
IsContent(line) ==
    \E i \in 1..Len(line) : line[i] # " " /\ line[i] # "#" /\ \A j \in 1..(i - 1) : line[j] = " "

\* s without a trailing " #..." comment
StripComment(s) ==
    LET starts(i) == s[i] = "#" /\ (i = 1 \/ s[i - 1] = " ")
    IN  IF \E i \in 1..Len(s) : starts(i)
        THEN TrimRight(SubSeq(s, 1, (CHOOSE i \in 1..Len(s) :
                                        starts(i) /\ \A j \in 1..(i - 1) : ~starts(j)) - 1))
        ELSE s

\* position (1-based) of the ":" that ends a plain key of s: the first ":"
\* followed by a blank or the end of s; 0 when s starts no "key:" entry
KeySep(s) ==
    LET isSep(i) == s[i] = ":" /\ (i = Len(s) \/ s[i + 1] = " ")
    IN  IF s = <<>> \/ s[1] \in {"{", "[", "\"", "}", "]"} THEN 0
        ELSE IF \E i \in 2..Len(s) : isSep(i)
        THEN CHOOSE i \in 2..Len(s) : isSep(i) /\ \A j \in 2..(i - 1) : ~isSep(j)
        ELSE 0

\* key and value node of the entry "k: v" of a flow mapping; <<>> when it is none
FlowEntry(entry, line) ==
    Let(Body(entry), LAMBDA e :
    Let(KeySep(e), LAMBDA k :
        IF k = 0 THEN <<>>
        ELSE << Node(ScalarNode, SubSeq(e, 1, k - 1), line, <<>>),
                Node(ScalarNode, TrimLeft(SliceFrom(e, k)), line, <<>>) >>))

RECURSIVE Flatten(_)
\* the concatenation of the sequences of seqs
Flatten(seqs) ==
    IF seqs = <<>> THEN <<>> ELSE Head(seqs) \o Flatten(Tail(seqs))

\* the node of a value written on one line: flow mapping (of one level),
\* flow sequence, double-quoted scalar or plain scalar
ParseInline(text, line) ==
    Let(StripComment(text), LAMBDA s :
        IF s[1] = "{" THEN
            IF s[Len(s)] # "}" THEN [ok |-> FALSE, node |-> NilNode]
            ELSE IF Body(SubSeq(s, 2, Len(s) - 1)) = <<>>
            THEN [ok |-> TRUE, node |-> Node(MappingNode, <<>>, line, <<>>)]
            ELSE Let(Split(SubSeq(s, 2, Len(s) - 1), ","), LAMBDA parts :
                 Let([i \in 1..Len(parts) |-> FlowEntry(parts[i], line)], LAMBDA entries :
                     [ok   |-> \A i \in 1..Len(entries) : entries[i] # <<>>,
                      node |-> Node(MappingNode, <<>>, line, Flatten(entries))]))
        ELSE IF s[1] = "[" THEN
            [ok |-> s[Len(s)] = "]", node |-> Node(SequenceNode, <<>>, line, <<>>)]
        ELSE IF s[1] = "\"" THEN
            [ok |-> Len(s) >= 2 /\ s[Len(s)] = "\"",
             node |-> Node(ScalarNode, SubSeq(s, 2, Len(s) - 1), line, <<>>)]
        ELSE [ok |-> TRUE, node |-> Node(ScalarNode, s, line, <<>>)])

\* the first line from i on that holds a token; Len(lines) + 1 when none
NextContent(lines, i) ==
    IF \E j \in i..Len(lines) : IsContent(lines[j])
    THEN CHOOSE j \in i..Len(lines) : IsContent(lines[j]) /\ \A k \in i..(j - 1) : ~IsContent(lines[k])
    ELSE Len(lines) + 1

RECURSIVE ParseMapping(_, _, _)
RECURSIVE ParseBlockValue(_, _, _)

\* the entries of the block mapping indented by n that starts at line i
ParseMapping(lines, i, n) ==
    Let(NextContent(lines, i), LAMBDA j :
        IF j > Len(lines) \/ Indent(lines[j]) < n
        THEN [ok |-> TRUE, Content |-> <<>>, next |-> j]
        ELSE Let(Body(lines[j]), LAMBDA body :
             Let(KeySep(body), LAMBDA k :
                 IF Indent(lines[j]) > n \/ k = 0
                 THEN [ok |-> FALSE, Content |-> <<>>, next |-> j]
                 ELSE Let(TrimLeft(SliceFrom(body, k)), LAMBDA rest :
                      Let(IF StripComment(rest) # <<>>
                          THEN Let(ParseInline(rest, j), LAMBDA in :
                                   [ok |-> in.ok, node |-> in.node, next |-> j + 1])
                          ELSE ParseBlockValue(lines, j, n), LAMBDA v :
                      Let(IF v.ok THEN ParseMapping(lines, v.next, n)
                          ELSE [ok |-> FALSE, Content |-> <<>>, next |-> j], LAMBDA more :
                          [ok      |-> v.ok /\ more.ok,
                           Content |-> << Node(ScalarNode, SubSeq(body, 1, k - 1), j, <<>>),
                                          v.node >> \o more.Content,
                           next    |-> more.next]))))))

\* the value of the entry "key:" of line i (indented by n) whose value is
\* not on line i: a nested block mapping, a scalar on the next line, or null
ParseBlockValue(lines, i, n) ==
    Let(NextContent(lines, i + 1), LAMBDA j :
        IF j > Len(lines) \/ Indent(lines[j]) <= n
        THEN [ok |-> TRUE, node |-> Node(ScalarNode, <<>>, i, <<>>), next |-> i + 1]
        ELSE IF KeySep(Body(lines[j])) > 0
        THEN Let(ParseMapping(lines, j, Indent(lines[j])), LAMBDA m :
                 [ok |-> m.ok, node |-> Node(MappingNode, <<>>, j, m.Content), next |-> m.next])
        ELSE Let(ParseInline(Body(lines[j]), j), LAMBDA in :
                 [ok |-> in.ok, node |-> in.node, next |-> j + 1]))

\* yaml.Unmarshal(data, &root)
Unmarshal(data) ==
    Let(Split(data, "\n"), LAMBDA lines :
    Let(NextContent(lines, 1), LAMBDA j :
        IF j > Len(lines) THEN [ok |-> TRUE, root |-> Node(DocumentNode, <<>>, 0, <<>>)]
        ELSE IF KeySep(Body(lines[j])) > 0
        THEN Let(ParseMapping(lines, j, Indent(lines[j])), LAMBDA m :
                 [ok   |-> m.ok /\ m.next > Len(lines),
                  root |-> Node(DocumentNode, <<>>, j,
                                << Node(MappingNode, <<>>, j, m.Content) >>)])
        ELSE Let(ParseInline(Body(lines[j]), j), LAMBDA in :
                 [ok   |-> in.ok /\ NextContent(lines, j + 1) > Len(lines),
                  root |-> Node(DocumentNode, <<>>, j, << in.node >>)])))

(***************************************************************************)
(* errors: an error is the chain of its messages, outermost first, as      *)
(* fmt.Errorf("...: %w", ..., err) builds it; nil is the empty chain.      *)
(***************************************************************************)

NoErr == <<>>

\* fmt.Errorf(format, arg)
Errorf(format, arg) ==
    << [fmt |-> format, arg |-> arg] >>

\* fmt.Errorf(format + ": %w", arg, err)
Wrap(format, arg, err) ==
    Errorf(format, arg) \o err

Failed(err) ==
    Len(err) > 0

(***************************************************************************)
(* pkg/yaml: Editor                                                        *)
(***************************************************************************)

\* a file of the disk: data, absent when ~exists, refusing to be opened for
\* writing when ~writable; when limited, the device takes no more than room
\* bytes for it
File(data) ==
    [exists |-> TRUE, writable |-> TRUE, limited |-> FALSE, room |-> 0, data |-> data]

NoUpdates == [l \in {} |-> <<>>]

NilEditor ==
    [filePath |-> "", root |-> NilNode, updates |-> NoUpdates]

\* NewEditor(filePath)
NewEditor(fs, filePath) ==
    IF ~fs[filePath].exists
    THEN [err |-> Wrap("failed to read file %s", filePath, Errorf("open: no such file", filePath)),
          editor |-> NilEditor]
    ELSE Let(Unmarshal(fs[filePath].data), LAMBDA u :
             IF ~u.ok
             THEN [err |-> Wrap("failed to parse YAML file %s", filePath, Errorf("yaml", filePath)),
                   editor |-> NilEditor]
             ELSE [err |-> NoErr,
                   editor |-> [filePath |-> filePath, root |-> u.root, updates |-> NoUpdates]])

\* the index in parent.Content of the value of the first entry whose key is
\* key: the loop of findChild; 0 when it finds none
ChildIndex(parent, key) ==
    LET hits == {i \in 1..(Len(parent.Content) \div 2) : parent.Content[2 * i - 1].Value = key}
    IN  IF hits = {} THEN 0 ELSE 2 * (CHOOSE i \in hits : \A j \in hits : i <= j)

\* Editor.findChild(parent, key)
findChild(parent, key) ==
    Let(IF parent.Kind = DocumentNode /\ Len(parent.Content) > 0
        THEN parent.Content[1] ELSE parent, LAMBDA p :
        IF p.Kind # MappingNode THEN NilNode
        ELSE IF ChildIndex(p, key) = 0 THEN NilNode
        ELSE p.Content[ChildIndex(p, key)])

RECURSIVE Walk(_, _)
\* the loop "for _, part := range parts { node = e.findChild(node, part) ... }"
Walk(node, parts) ==
    IF parts = <<>> THEN node
    ELSE Let(findChild(node, Head(parts)), LAMBDA child :
             IF child = NilNode THEN NilNode ELSE Walk(child, Tail(parts)))

\* a faulty GetValue that returns the value field of whatever node it reaches
GetValueAnyKind(e, path) ==
    Let(Walk(e.root, Split(path, ".")), LAMBDA node :
        IF node = NilNode
        THEN [err |-> Errorf("path %s not found", path), value |-> <<>>]
        ELSE [err |-> NoErr, value |-> node.Value])

\* Editor.GetValue(path)
GetValue(e, path) ==
    Let(Walk(e.root, Split(path, ".")), LAMBDA node :
        IF node = NilNode
        THEN [err |-> Errorf("path %s not found", path), value |-> <<>>]
        ELSE IF node.Kind # ScalarNode
        THEN [err |-> Errorf("path %s does not point to a scalar value", path), value |-> <<>>]
        ELSE [err |-> NoErr, value |-> node.Value])

RECURSIVE WithValue(_, _, _)
\* the tree after "node.Value = value" at the node Walk reaches
WithValue(node, parts, value) ==
    IF parts = <<>> THEN [node EXCEPT !.Value = value]
    ELSE IF node.Kind = DocumentNode /\ Len(node.Content) > 0
    THEN [node EXCEPT !.Content[1] = WithValue(node.Content[1], parts, value)]
    ELSE Let(ChildIndex(node, Head(parts)), LAMBDA k :
             [node EXCEPT !.Content[k] = WithValue(node.Content[k], Tail(parts), value)])

\* Editor.SetValue(path, value)
SetValue(e, path, value) ==
    Let(Split(path, "."), LAMBDA parts :
    Let(Walk(e.root, parts), LAMBDA node :
        IF node = NilNode
        THEN [err |-> Errorf("path %s not found", path), editor |-> e]
        ELSE IF node.Kind # ScalarNode
        THEN [err |-> Errorf("path %s does not point to a scalar value", path), editor |-> e]
        ELSE [err |-> NoErr,
              editor |-> [e EXCEPT
                  !.root    = WithValue(e.root, parts, value),
                  !.updates = [l \in DOMAIN e.updates \cup {node.Line} |->
                                  IF l = node.Line THEN value ELSE e.updates[l]]]]))

\* a faulty loop body that patches the line after the one named
SaveLineOffByOne(lines, lineNum, newValue) ==
    IF lineNum < 1 \/ lineNum > Len(lines)
    THEN [err |-> Errorf("invalid line number %d", lineNum), lines |-> lines]
    ELSE LET idx      == IF lineNum < Len(lines) THEN lineNum ELSE lineNum - 1
             line     == lines[idx + 1]
             colonIdx == Index(line, ":")
         IN  [err |-> NoErr,
              lines |-> [lines EXCEPT ![idx + 1] = SliceTo(line, colonIdx + 1) \o <<" ">> \o newValue]]

\* a faulty loop body that cuts the line at its last colon
SaveLineLastColon(lines, lineNum, newValue) ==
    IF lineNum < 1 \/ lineNum > Len(lines)
    THEN [err |-> Errorf("invalid line number %d", lineNum), lines |-> lines]
    ELSE LET line == lines[lineNum]
             cut  == IF \E i \in 1..Len(line) : line[i] = ":"
                     THEN CHOOSE i \in 1..Len(line) :
                              line[i] = ":" /\ \A j \in (i + 1)..Len(line) : line[j] # ":"
                     ELSE 0
         IN  IF cut = 0
             THEN [err |-> Errorf("line %d does not contain a colon", lineNum), lines |-> lines]
             ELSE [err |-> NoErr,
                   lines |-> [lines EXCEPT ![lineNum] = SubSeq(line, 1, cut) \o <<" ">> \o newValue]]

\* a faulty loop body that skips an entry it cannot apply
SaveLineSkipInvalid(lines, lineNum, newValue) ==
    IF lineNum < 1 \/ lineNum > Len(lines) THEN [err |-> NoErr, lines |-> lines]
    ELSE LET line     == lines[lineNum]
             colonIdx == Index(line, ":")
         IN  IF colonIdx = -1 THEN [err |-> NoErr, lines |-> lines]
             ELSE [err |-> NoErr,
                   lines |-> [lines EXCEPT ![lineNum] =
                                  SliceTo(line, colonIdx + 1) \o <<" ">> \o newValue]]

\* the body of Save's loop for the entry lineNum of e.updates
SaveLine(lines, lineNum, newValue) ==
    IF lineNum < 1 \/ lineNum > Len(lines)
    THEN [err |-> Errorf("invalid line number %d", lineNum), lines |-> lines]
    ELSE LET idx      == lineNum - 1
             line     == lines[idx + 1]
             colonIdx == Index(line, ":")
             indent   == SliceTo(line, colonIdx + 1)
         IN  IF colonIdx = -1
             THEN [err |-> Errorf("line %d does not contain a colon", lineNum), lines |-> lines]
             ELSE [err |-> NoErr,
                   lines |-> [lines EXCEPT ![idx + 1] = indent \o <<" ">> \o newValue]]

RECURSIVE SaveLines(_, _, _)
\* the loop of Save over e.updates, in the order the map range yields its keys
SaveLines(lines, updates, order) ==
    IF order = <<>> THEN [err |-> NoErr, lines |-> lines]
    ELSE Let(SaveLine(lines, Head(order), updates[Head(order)]), LAMBDA r :
             IF Failed(r.err) THEN r ELSE SaveLines(r.lines, updates, Tail(order)))

\* os.WriteFile(name, data, 0644): the file is opened with O_TRUNC, then
\* data is written to it; a write that the device cuts short leaves the
\* bytes it took
WriteFile(fs, fileName, data) ==
    IF fs[fileName].exists /\ ~fs[fileName].writable
    THEN [err |-> Errorf("open: permission denied", fileName), fs |-> fs]
    ELSE IF fs[fileName].limited /\ Len(data) > fs[fileName].room
    THEN [err |-> Errorf("write: no space left on device", fileName),
          fs |-> [fs EXCEPT ![fileName].exists = TRUE, ![fileName].writable = TRUE,
                            ![fileName].data = SubSeq(data, 1, fs[fileName].room)]]
    ELSE [err |-> NoErr,
          fs |-> [fs EXCEPT ![fileName].exists = TRUE, ![fileName].writable = TRUE,
                            ![fileName].data = data]]

\* Editor.Save(), the range over e.updates yielding its keys in `order`;
\* wrote: os.WriteFile was called
Save(e, fs, order) ==
    IF ~fs[e.filePath].exists
    THEN [err |-> Wrap("failed to read file %s", e.filePath, Errorf("open: no such file", e.filePath)),
          fs |-> fs, wrote |-> FALSE]
    ELSE Let(SaveLines(Split(fs[e.filePath].data, "\n"), e.updates, order), LAMBDA r :
             IF Failed(r.err) THEN [err |-> r.err, fs |-> fs, wrote |-> FALSE]
             ELSE Let(WriteFile(fs, e.filePath, Join(r.lines, "\n")), LAMBDA w :
                      IF Failed(w.err)
                      THEN [err |-> Wrap("failed to write file %s", e.filePath, w.err),
                            fs |-> w.fs, wrote |-> TRUE]
                      ELSE [err |-> NoErr, fs |-> w.fs, wrote |-> TRUE]))

\* the orders in which a Go map range may yield the keys of a map
RangeOrders(keys) ==
    {o \in [1..Cardinality(keys) -> keys] : \A i, j \in 1..Cardinality(keys) : o[i] = o[j] => i = j}

(***************************************************************************)
(* The state.                                                              *)
(***************************************************************************)

VARIABLES
    cfg,          \* *config.Config: Images, a Go map from image name to ImageConfig
    dryRun,       \* Updater.dryRun
    quayVersion,  \* which of the two versions of pkg/clients' Quay client is built in
    acrClient,    \* Updater.acrClient: "nil" when NewACRClient failed in New
    registry,     \* what the registries hold, per repository (the same in every run)
    disk,         \* the files, by path
    start,        \* the files as they were when this run started
    pc,           \* where the run is
    todo,         \* the images the range over cfg.Images has not yielded yet
    name,         \* the image being processed
    digest,       \* its latest digest, once fetched
    t,            \* the index of the Target being processed
    page,         \* the Quay client's page counter
    allTags,      \* the tags the Quay client has accumulated
    err,          \* what UpdateImages returned, once pc = "done"
    trace,        \* this run's requests, file accesses, reports and failures, in order
    run,          \* the number of this run
    results,      \* what the earlier runs returned
    digests,      \* the digest fetched for each image in this run
    updates,      \* the update list of this run
    editor,       \* a yaml.Editor in the hands of a caller
    call          \* the last call on it and what it returned

inputs  == <<cfg, dryRun, quayVersion, acrClient, registry>>
locals  == <<todo, name, digest, t, page, allTags, digests>>
history == <<run, results, start>>
edvars  == <<editor, call>>
vars    == <<cfg, dryRun, quayVersion, acrClient, registry, disk, start, pc, todo, name,
             digest, t, page, allTags, err, trace, run, results, digests, updates, editor, call>>

\* an entry of the trace
Event(op, image, file, n, what) ==
    [op |-> op, image |-> image, file |-> file, n |-> n, what |-> what]

Request(image, n) == Event("request", image, "", n, "")
ReadOf(file)      == Event("read", "", file, 0, "")
WriteOf(file)     == Event("write", "", file, 0, "")
Report(image, file, n, what) == Event("report", image, file, n, what)
Failure(image)    == Event("error", image, "", 0, "")

(***************************************************************************)
(* pkg/clients: the Quay client.  quay.go probes page 1 for a tag named    *)
(* "latest" and then sorts the matching tags of an uncapped crawl; the     *)
(* other version has no probe, caps the crawl and compares the raw         *)
(* last_modified strings.                                                  *)
(***************************************************************************)

QuayGo  == "quay.go"
Part002 == "part_002"

\* the cap of getTags
maxPages == 5

\* the model stops an uncapped crawl after this many pages
PageBound == 7

LatestName == <<"l", "a", "t", "e", "s", "t">>

\* the response of the tag endpoint to "tag?page=p": Quay serves page 1 for
\* a page below 1 unless the repository state says it refuses; past the last
\* page it serves an empty page, or the last one again when pagination
\* misbehaves (endless)
Respond(repo, p) ==
    LET n == Len(repo.pages)
    IN  IF p < 1 THEN
            IF repo.zero = "first" THEN [repo.pages[1] EXCEPT !.HasAdditional = n > 1 \/ repo.endless]
            ELSE [status |-> "status", Tags |-> <<>>, HasAdditional |-> FALSE]
        ELSE IF p <= n THEN [repo.pages[p] EXCEPT !.HasAdditional = p < n \/ repo.endless]
        ELSE IF repo.endless THEN [repo.pages[n] EXCEPT !.HasAdditional = TRUE]
        ELSE [status |-> "ok", Tags |-> <<>>, HasAdditional |-> FALSE]

\* a faulty check of the response that accepts every status
RequestErrAnyStatus(resp, repository, p) ==
    IF resp.status = "transport" THEN Errorf("failed to request Quay.io API", p)
    ELSE IF resp.status = "decode" THEN Errorf("failed to decode Quay.io API response", p)
    ELSE NoErr

\* the error of one GET of the tag endpoint, NoErr when it decodes
RequestErr(resp, repository, p) ==
    IF resp.status = "transport" THEN Errorf("failed to request Quay.io API", p)
    ELSE IF resp.status = "status" THEN Errorf("Quay.io API returned status %d for repository %s", p)
    ELSE IF resp.status = "decode" THEN Errorf("failed to decode Quay.io API response", p)
    ELSE NoErr

\* regexp.Compile(tagPattern) succeeds
Compiles(tagPattern) ==
    tagPattern # "("

Digits == {"0", "1", "2", "3", "4", "5", "6", "7", "8", "9"}

\* regex.MatchString(name), for the patterns of the model
MatchString(tagPattern, tagName) ==
    CASE tagPattern = ""           -> TRUE
      [] tagPattern = "^v[0-9]+$"  -> /\ Len(tagName) >= 2
                                      /\ tagName[1] = "v"
                                      /\ \A i \in 2..Len(tagName) : tagName[i] \in Digits
      [] tagPattern = "v"          -> \E i \in 1..Len(tagName) : tagName[i] = "v"
      [] tagPattern = "^latest$"   -> tagName = LatestName
      [] OTHER                     -> FALSE

\* a faulty isMetadataTag that knows signatures only
isMetadataTagSigOnly(tagName) ==
    HasSuffix(tagName, <<".", "s", "i", "g">>)

\* isMetadataTag(name)
isMetadataTag(tagName) ==
    \/ HasSuffix(tagName, <<".", "s", "i", "g">>)
    \/ HasSuffix(tagName, <<".", "a", "t", "t">>)
    \/ HasSuffix(tagName, <<".", "s", "b", "o", "m">>)

\* the last_modified strings of the model: the layouts of time.Parse that
\* accept each, the instant it denotes, and its rank in Go's (bytewise)
\* string order
TimeTable ==
    [ts \in {"", "2024-12-27T10:00:00Z", "Thu, 26 Dec 2024 09:00:00 -0000",
             "Tue, 24 Dec 2024 10:00:00 UTC", "Wed, 25 Dec 2024 14:43:12 -0000"} |->
        CASE ts = "" ->
                [layouts |-> {}, instant |-> 0, rank |-> 0]
          [] ts = "2024-12-27T10:00:00Z" ->
                [layouts |-> {"RFC3339", "RFC3339Nano", "2006-01-02T15:04:05Z"},
                 instant |-> 4, rank |-> 1]
          [] ts = "Thu, 26 Dec 2024 09:00:00 -0000" ->
                [layouts |-> {"RFC1123Z"}, instant |-> 3, rank |-> 2]
          [] ts = "Tue, 24 Dec 2024 10:00:00 UTC" ->
                [layouts |-> {"RFC1123"}, instant |-> 1, rank |-> 3]
          [] ts = "Wed, 25 Dec 2024 14:43:12 -0000" ->
                [layouts |-> {"RFC1123Z"}, instant |-> 2, rank |-> 4]]

\* Go's timestamp1 > timestamp2 on strings
StringGreater(timestamp1, timestamp2) ==
    TimeTable[timestamp1].rank > TimeTable[timestamp2].rank

\* time.Parse(layout, ts) succeeds
Parses(layout, ts) ==
    layout \in TimeTable[ts].layouts

RECURSIVE TryFormats(_, _, _)
\* the loop of compareTimestamps over the alternative formats
TryFormats(formats, timestamp1, timestamp2) ==
    IF formats = <<>> THEN StringGreater(timestamp1, timestamp2)
    ELSE IF Parses(Head(formats), timestamp1) /\ Parses(Head(formats), timestamp2)
    THEN TimeTable[timestamp1].instant > TimeTable[timestamp2].instant
    ELSE TryFormats(Tail(formats), timestamp1, timestamp2)

\* QuayClient.compareTimestamps(timestamp1, timestamp2) of quay.go
compareTimestamps(timestamp1, timestamp2) ==
    IF Parses("RFC1123Z", timestamp1) /\ Parses("RFC1123Z", timestamp2)
    THEN TimeTable[timestamp1].instant > TimeTable[timestamp2].instant
    ELSE TryFormats(<<"RFC1123", "RFC3339", "RFC3339Nano", "2006-01-02T15:04:05Z",
                      "2006-01-02T15:04:05.000Z", "2006-01-02 15:04:05">>,
                    timestamp1, timestamp2)

RECURSIVE SiftDown(_, _)
\* the inner loop of insertion sort: data[j] moves left while less(data[j], data[j-1])
SiftDown(data, j) ==
    IF j > 1 /\ compareTimestamps(data[j].LastModified, data[j - 1].LastModified)
    THEN SiftDown([data EXCEPT ![j] = data[j - 1], ![j - 1] = data[j]], j - 1)
    ELSE data

RECURSIVE InsertionSort(_, _)
InsertionSort(data, i) ==
    IF i > Len(data) THEN data ELSE InsertionSort(SiftDown(data, i), i + 1)

\* a faulty sort whose order of equal elements changes from call to call
SortSliceUnstable(matchingTags) ==
    IF Len(results) = 0 THEN InsertionSort(matchingTags, 2)
    ELSE InsertionSort([i \in 1..Len(matchingTags) |-> matchingTags[Len(matchingTags) + 1 - i]], 2)

\* sort.Slice(matchingTags, less) with less = compareTimestamps: the Go
\* runtime sorts a slice of at most 12 elements by insertion
SortSlice(matchingTags) ==
    InsertionSort(matchingTags, 2)

RECURSIVE FilterKeepingNoDigest(_, _)
\* a faulty filter that keeps the tags without a digest
FilterKeepingNoDigest(tags, tagPattern) ==
    IF tags = <<>> THEN <<>>
    ELSE LET tag == Head(tags)
         IN  IF ~MatchString(tagPattern, tag.Name) THEN FilterKeepingNoDigest(Tail(tags), tagPattern)
             ELSE IF isMetadataTag(tag.Name) THEN FilterKeepingNoDigest(Tail(tags), tagPattern)
             ELSE <<tag>> \o FilterKeepingNoDigest(Tail(tags), tagPattern)

RECURSIVE Filter(_, _)
\* the tags of getDigestByTagPattern's loop that reach the end of its body
Filter(tags, tagPattern) ==
    IF tags = <<>> THEN <<>>
    ELSE LET tag == Head(tags)
         IN  IF ~MatchString(tagPattern, tag.Name) THEN Filter(Tail(tags), tagPattern)
             ELSE IF isMetadataTag(tag.Name) THEN Filter(Tail(tags), tagPattern)
             ELSE IF tag.ManifestDigest = <<>> THEN Filter(Tail(tags), tagPattern)
             ELSE <<tag>> \o Filter(Tail(tags), tagPattern)

RECURSIVE MostRecent(_, _)
\* part_002: "if mostRecent == nil || tag.LastModified > mostRecent.LastModified"
MostRecent(eligible, mostRecent) ==
    IF eligible = <<>> THEN mostRecent
    ELSE IF StringGreater(Head(eligible).LastModified, mostRecent.LastModified)
    THEN MostRecent(Tail(eligible), Head(eligible))
    ELSE MostRecent(Tail(eligible), mostRecent)

\* the nil *QuayTag
NilTag ==
    [Name |-> <<>>, ManifestDigest |-> <<>>, LastModified |-> ""]

\* the tag getDigestByTagPattern calls mostRecent, NilTag when no tag is
\* eligible: matchingTags[0] after the sort (quay.go), the result of the
\* scan (the other version)
SelectedTag(version, tags, tagPattern) ==
    Let(Filter(tags, tagPattern), LAMBDA matchingTags :
        IF matchingTags = <<>> THEN NilTag
        ELSE IF version = QuayGo THEN SortSlice(matchingTags)[1]
        ELSE MostRecent(Tail(matchingTags), Head(matchingTags)))

\* the tail of getDigestByTagPattern, from the filter on
SelectDigest(version, tags, tagPattern) ==
    Let(SelectedTag(version, tags, tagPattern), LAMBDA mostRecent :
        IF mostRecent = NilTag
        THEN [err |-> Errorf("no tags matching pattern %s found for repository %s", tagPattern),
              digest |-> <<>>]
        ELSE [err |-> NoErr, digest |-> mostRecent.ManifestDigest])

\* tryGetLatestTag's loop over the tags of the first page
LatestOf(tags, repository) ==
    LET hits == {i \in 1..Len(tags) : tags[i].Name = LatestName}
        i    == CHOOSE i \in hits : \A j \in hits : i <= j
    IN  IF hits = {} THEN [err |-> NoErr, tag |-> <<>>]
        ELSE IF tags[i].ManifestDigest = <<>>
        THEN [err |-> Errorf("latest tag found but no manifest digest available for repository %s",
                             repository),
              tag |-> <<>>]
        ELSE [err |-> NoErr, tag |-> tags[i].ManifestDigest]

(***************************************************************************)
(* pkg/updater: the run                                                    *)
(***************************************************************************)

\* strings.Contains(s, substr)
Contains(s, substr) ==
    \E i \in 1..(Len(s) - Len(substr) + 1) : SubSeq(s, i, i + Len(substr) - 1) = substr

ImageConfigOf(n) == cfg.Images[n]

\* a faulty error path: the failure is recorded and the loop goes on to the
\* next image
LogErr(e, events) ==
    /\ pc' = "range"
    /\ err' = e
    /\ trace' = trace \o events \o <<Failure(name)>>

\* "return fmt.Errorf(...)" out of UpdateImages, after the I/O in events
ReturnErr(e, events) ==
    /\ pc' = "done"
    /\ err' = e
    /\ trace' = trace \o events \o <<Failure(name)>>

\* the next Target of the image, or the next image after its last Target
Continue(k) ==
    IF k >= Len(ImageConfigOf(name).Targets)
    THEN pc' = "range" /\ t' = 0
    ELSE pc' = "updateImage" /\ t' = k + 1

\* fetchLatestDigest returned d: UpdateImages goes on to the Targets
ReturnDigest(d, events) ==
    /\ digest' = d
    /\ digests' = [n \in DOMAIN digests \cup {name} |-> IF n = name THEN d ELSE digests[n]]
    /\ trace' = trace \o events
    /\ err' = err
    /\ Continue(0)

\* "for name, imageConfig := range cfg.Images": a Go map range yields the
\* entries in an order of its own
RangeImages ==
    /\ pc = "range"
    /\ \/ /\ todo = {}
          /\ pc' = "done"
          /\ err' = NoErr
          /\ UNCHANGED <<todo, name>>
       \/ /\ \E n \in todo :
                /\ name' = n
                /\ todo' = todo \ {n}
          /\ pc' = "fetch"
          /\ err' = err
    /\ UNCHANGED <<inputs, disk, digest, t, page, allTags, trace, history, updates, digests, edvars>>

\* ACRClient.GetLatestDigest(repository): one lookup of the repository
ACRGetLatestDigest(repo) ==
    IF repo.manifest = <<>>
    THEN [err |-> Errorf("failed to get manifest properties for %s", ""), digest |-> <<>>]
    ELSE [err |-> NoErr, digest |-> repo.manifest]

\* Updater.fetchLatestDigest(source), up to the call of the Quay client;
\* getACRDigest as a whole
FetchLatestDigest ==
    /\ pc = "fetch"
    /\ LET source == ImageConfigOf(name).Source
           found  == ACRGetLatestDigest(registry[source.Repository])
       IN  IF Contains(source.Registry, <<"q", "u", "a", "y", ".", "i", "o">>)
           THEN /\ pc' = IF quayVersion = QuayGo THEN "tryGetLatestTag"
                         ELSE "getDigestByTagPattern"
                /\ UNCHANGED <<err, trace, digest, digests, t>>
           ELSE IF Contains(source.Registry, <<"a", "z", "u", "r", "e", "c", "r", ".", "i", "o">>)
           THEN IF acrClient = "nil"
                THEN /\ ReturnErr(Wrap("failed to fetch latest digest", "",
                            Errorf("ACR client not initialized - authentication may have failed", "")),
                            <<>>)
                     /\ UNCHANGED <<digest, digests, t>>
                ELSE IF Failed(found.err)
                THEN /\ ReturnErr(Wrap("failed to fetch latest digest", "", found.err),
                                  <<Request(name, 0)>>)
                     /\ UNCHANGED <<digest, digests, t>>
                ELSE ReturnDigest(found.digest, <<Request(name, 0)>>)
           ELSE /\ ReturnErr(Wrap("failed to fetch latest digest", "",
                                  Errorf("unsupported registry: %s", source.Registry)), <<>>)
                /\ UNCHANGED <<digest, digests, t>>
    /\ UNCHANGED <<inputs, disk, todo, name, page, allTags, history, updates, edvars>>

\* QuayClient.GetLatestDigest of quay.go, up to the call of
\* getDigestByTagPattern: tryGetLatestTag
TryGetLatestTag ==
    /\ pc = "tryGetLatestTag"
    /\ LET source == ImageConfigOf(name).Source
           resp   == Respond(registry[source.Repository], 1)
           e      == RequestErr(resp, source.Repository, 1)
           latest == LatestOf(resp.Tags, source.Repository)
       IN  IF Failed(e)
           THEN /\ ReturnErr(Wrap("failed to fetch latest digest", "", e), <<Request(name, 1)>>)
                /\ UNCHANGED <<digest, digests, t>>
           ELSE IF Failed(latest.err)
           THEN /\ ReturnErr(Wrap("failed to fetch latest digest", "", latest.err),
                             <<Request(name, 1)>>)
                /\ UNCHANGED <<digest, digests, t>>
           ELSE IF latest.tag # <<>>
           THEN ReturnDigest(latest.tag, <<Request(name, 1)>>)
           ELSE /\ pc' = "getDigestByTagPattern"
                /\ trace' = Append(trace, Request(name, 1))
                /\ UNCHANGED <<err, digest, digests, t>>
    /\ UNCHANGED <<inputs, disk, todo, name, page, allTags, history, updates, edvars>>

\* getDigestByTagPattern, up to its call of getAllTags / getTags
GetDigestByTagPattern ==
    /\ pc = "getDigestByTagPattern"
    /\ LET source == ImageConfigOf(name).Source
       IN  IF ~Compiles(source.TagPattern)
           THEN /\ ReturnErr(Wrap("failed to fetch latest digest", "",
                                  Errorf("invalid tag pattern %s", source.TagPattern)), <<>>)
                /\ UNCHANGED <<page, allTags>>
           ELSE /\ pc' = "getTags"
                /\ page' = IF quayVersion = QuayGo THEN 1 ELSE 0
                /\ allTags' = <<>>
                /\ UNCHANGED <<err, trace>>
    /\ UNCHANGED <<inputs, disk, todo, name, digest, t, history, updates, digests, edvars>>

\* one round of the loop of getAllTags (quay.go) / getTags: one GET
GetTagsPage ==
    /\ pc = "getTags"
    /\ page <= PageBound
    /\ LET source == ImageConfigOf(name).Source
           resp   == Respond(registry[source.Repository], page)
           e      == RequestErr(resp, source.Repository, page)
           again  == /\ resp.HasAdditional
                     /\ quayVersion = QuayGo \/ page + 1 < maxPages
       IN  IF Failed(e)
           THEN /\ ReturnErr(Wrap("failed to fetch latest digest", "",
                                  Wrap("failed to fetch all tags", "", e)),
                             <<Request(name, page)>>)
                /\ UNCHANGED <<page, allTags>>
           ELSE /\ allTags' = allTags \o resp.Tags
                /\ trace' = Append(trace, Request(name, page))
                /\ page' = IF again THEN page + 1 ELSE page
                /\ pc' = IF again THEN "getTags" ELSE "select"
                /\ err' = err
    /\ UNCHANGED <<inputs, disk, todo, name, digest, t, history, updates, digests, edvars>>

\* the rest of getDigestByTagPattern, and the return to UpdateImages
SelectTag ==
    /\ pc = "select"
    /\ LET source == ImageConfigOf(name).Source
           sel    == SelectDigest(quayVersion, allTags, source.TagPattern)
       IN  IF Failed(sel.err)
           THEN /\ ReturnErr(Wrap("failed to fetch latest digest", "", sel.err), <<>>)
                /\ UNCHANGED <<digest, digests, t>>
           ELSE ReturnDigest(sel.digest, <<>>)
    /\ UNCHANGED <<inputs, disk, todo, name, page, allTags, history, updates, edvars>>

\* updateImage from "Update the digest" on: SetValue, Save and the report.
\* The Editor holds one update, so the range of Save has one order.
applyUpdate(fs, e, imageName, latestDigest, target, k, events) ==
    Let(SetValue(e, target.JsonPath, latestDigest), LAMBDA set :
        IF Failed(set.err)
        THEN [err |-> Wrap("failed to set new digest", "", set.err), fs |-> fs, events |-> events]
        ELSE Let(Save(set.editor, fs, CHOOSE o \in RangeOrders(DOMAIN set.editor.updates) : TRUE),
                 LAMBDA saved :
                 Let(events \o <<ReadOf(target.FilePath)>>
                            \o (IF saved.wrote THEN <<WriteOf(target.FilePath)>> ELSE <<>>),
                     LAMBDA io :
                     IF Failed(saved.err)
                     THEN [err |-> Wrap("failed to save file", "", saved.err),
                           fs |-> saved.fs, events |-> io]
                     ELSE [err |-> NoErr, fs |-> saved.fs,
                           events |-> Append(io, Report(imageName, target.FilePath, k, "updated"))])))

\* a faulty updateImage that patches whatever the mode and the current value
updateImageNoDryRun(dry, fs, imageName, latestDigest, target, k) ==
    Let(NewEditor(fs, target.FilePath), LAMBDA new :
        IF Failed(new.err)
        THEN [err |-> Wrap("failed to load target file %s", target.FilePath, new.err),
              fs |-> fs, events |-> <<ReadOf(target.FilePath)>>]
        ELSE applyUpdate(fs, new.editor, imageName, latestDigest, target, k,
                         <<ReadOf(target.FilePath),
                           Report(imageName, target.FilePath, k, "update needed")>>))

\* Updater.updateImage(name, latestDigest, target) for the k-th Target of the
\* image, on the files fs: its error, the files after it, its I/O and reports
updateImage(dry, fs, imageName, latestDigest, target, k) ==
    Let(NewEditor(fs, target.FilePath), LAMBDA new :
        IF Failed(new.err)
        THEN [err |-> Wrap("failed to load target file %s", target.FilePath, new.err),
              fs |-> fs, events |-> <<ReadOf(target.FilePath)>>]
        ELSE Let(GetValue(new.editor, target.JsonPath), LAMBDA currentDigest :
             IF Failed(currentDigest.err)
             THEN [err |-> Wrap("failed to get current digest at path %s", target.JsonPath,
                                currentDigest.err),
                   fs |-> fs, events |-> <<ReadOf(target.FilePath)>>]
             ELSE IF currentDigest.value = latestDigest
             THEN [err |-> NoErr, fs |-> fs,
                   events |-> <<ReadOf(target.FilePath),
                                Report(imageName, target.FilePath, k, "no update needed")>>]
             ELSE IF dry
             THEN [err |-> NoErr, fs |-> fs,
                   events |-> <<ReadOf(target.FilePath),
                                Report(imageName, target.FilePath, k, "update needed"),
                                Report(imageName, target.FilePath, k, "dry run")>>]
             ELSE applyUpdate(fs, new.editor, imageName, latestDigest, target, k,
                              <<ReadOf(target.FilePath),
                                Report(imageName, target.FilePath, k, "update needed")>>)))

\* an UpdateRecord of the update list
UpdateRecord(imageName, oldDigest, newDigest) ==
    [Name |-> imageName, OldDigest |-> oldDigest, NewDigest |-> newDigest]

\* what the update list gains by the call of updateImage that returned r on
\* the files fs: the record of the edit, when the call applied one
Recorded(r, fs, imageName, latestDigest, target) ==
    IF ~Failed(r.err) /\ r.events[Len(r.events)].what = "updated"
    THEN << UpdateRecord(imageName,
                         GetValue(NewEditor(fs, target.FilePath).editor, target.JsonPath).value,
                         latestDigest) >>
    ELSE <<>>

\* the body of UpdateImages' inner loop for the Target t, and the step of
\* the loops after it
UpdateImage ==
    /\ pc = "updateImage"
    /\ \E r \in {updateImage(dryRun, disk, name, digest, ImageConfigOf(name).Targets[t], t)} :
          /\ disk' = r.fs
          /\ updates' = updates \o Recorded(r, disk, name, digest, ImageConfigOf(name).Targets[t])
          /\ IF Failed(r.err)
             THEN /\ ReturnErr(Wrap("failed to update image %s", name, r.err), r.events)
                  /\ t' = t
             ELSE /\ trace' = trace \o r.events
                  /\ err' = err
                  /\ Continue(t)
    /\ UNCHANGED <<inputs, todo, name, digest, page, allTags, history, digests, edvars>>

\* the number of runs of the tool the model follows
MaxRuns == 2

NoDigests == [n \in {} |-> <<>>]

\* the tool is run again: New, then UpdateImages on the same configuration
Rerun ==
    /\ pc = "done"
    /\ run < MaxRuns
    /\ run' = run + 1
    /\ start' = disk
    /\ results' = Append(results, err)
    /\ pc' = "range"
    /\ todo' = DOMAIN cfg.Images
    /\ err' = NoErr
    /\ trace' = <<>>
    /\ digests' = NoDigests
    /\ updates' = <<>>
    /\ name' = ""
    /\ digest' = <<>>
    /\ t' = 0
    /\ page' = 0
    /\ allTags' = <<>>
    /\ UNCHANGED <<inputs, disk, edvars>>

(***************************************************************************)
(* pkg/yaml: an Editor in the hands of a caller who may set several values *)
(* before saving, while the file may be replaced on disk in between.       *)
(***************************************************************************)

\* the number of SetValue calls the model follows on one Editor
MaxEdits == 2

NoCall ==
    [op |-> "none", err |-> NoErr, path |-> <<>>, value |-> <<>>, before |-> <<>>,
     order |-> <<>>, sets |-> 0, replaced |-> FALSE]

\* the logical paths callers ask for
PathAD  == <<"a", ".", "d">>
PathB   == <<"b">>
PathA   == <<"a">>
PathC   == <<"c">>
PathADX == <<"a", ".", "d", ".", "x">>
Paths   == {PathAD, PathB, PathA, PathC, PathADX}

\* digests: D0 is a stale one found in files, the others are served by registries
D0 == <<"s", ":", "0">>
D1 == <<"s", ":", "1">>
D2 == <<"s", ":", "2">>
D3 == <<"s", ":", "3">>

\* yaml.NewEditor(filePath) by a caller
CallNewEditor ==
    /\ pc = "editor"
    /\ editor = NilEditor
    /\ LET r == NewEditor(disk, "f1")
       IN  /\ editor' = r.editor
           /\ call' = [call EXCEPT !.op = "NewEditor", !.err = r.err, !.before = disk["f1"].data]
    /\ UNCHANGED <<inputs, disk, pc, locals, err, trace, history, updates>>

\* Editor.GetValue(path) by a caller
CallGetValue ==
    /\ pc = "editor"
    /\ editor # NilEditor
    /\ \E path \in Paths :
          LET r == GetValue(editor, path)
          IN  call' = [call EXCEPT !.op = "GetValue", !.err = r.err, !.path = path,
                                   !.value = r.value, !.before = disk["f1"].data]
    /\ UNCHANGED <<inputs, disk, pc, locals, err, trace, history, updates, editor>>

\* Editor.SetValue(path, value) by a caller
CallSetValue ==
    /\ pc = "editor"
    /\ editor # NilEditor
    /\ call.sets < MaxEdits
    /\ \E path \in Paths, value \in {D1, D2} :
          LET r == SetValue(editor, path, value)
          IN  /\ editor' = r.editor
              /\ call' = [call EXCEPT !.op = "SetValue", !.err = r.err, !.path = path,
                                      !.value = value, !.before = disk["f1"].data,
                                      !.sets = call.sets + 1]
    /\ UNCHANGED <<inputs, disk, pc, locals, err, trace, history, updates>>

\* Editor.Save() by a caller
CallSave ==
    /\ pc = "editor"
    /\ editor # NilEditor
    /\ \E order \in RangeOrders(DOMAIN editor.updates) :
          LET r == Save(editor, disk, order)
          IN  /\ disk' = r.fs
              /\ call' = [call EXCEPT !.op = "Save", !.err = r.err, !.order = order,
                                      !.before = disk["f1"].data]
    /\ UNCHANGED <<inputs, pc, locals, err, trace, history, updates, editor>>

(***************************************************************************)
(* The target files of the model.                                          *)
(***************************************************************************)

\* block style, with comments and a quoted template placeholder next to
\* the digests, ending in a newline:
\*      # c
\*      a:
\*        d: <da> # k
\*        t: "{{x}}"
\*      b: <db>
DocBlock(da, db) ==
    Join(<< <<"#", " ", "c">>,
            <<"a", ":">>,
            <<" ", " ", "d", ":", " ">> \o da \o <<" ", "#", " ", "k">>,
            <<" ", " ", "t", ":", " ", "\"", "{", "{", "x", "}", "}", "\"">>,
            <<"b", ":", " ">> \o db,
            <<>> >>, "\n")

\* flow style, no newline at the end:
\*      a: {d: s:0, t: x}
\*      b: s:0
DocFlow ==
    Join(<< <<"a", ":", " ", "{", "d", ":", " ", "s", ":", "0", ",", " ", "t", ":", " ", "x", "}">>,
            <<"b", ":", " ", "s", ":", "0">> >>, "\n")

\* values on the line after their key:
\*      a:
\*        d:
\*          s:0
\*      b:
\*        old
DocNext ==
    Join(<< <<"a", ":">>,
            <<" ", " ", "d", ":">>,
            <<" ", " ", " ", " ", "s", ":", "0">>,
            <<"b", ":">>,
            <<" ", " ", "o", "l", "d">>,
            <<>> >>, "\n")

\* not YAML: the flow mapping is not closed
DocBad ==
    Join(<< <<"a", ":", " ", "{", "d", ":", " ", "s", ":", "0">> >>, "\n")

\* one line
DocShort ==
    Join(<< <<"b", ":", " ", "s", ":", "0">>, <<>> >>, "\n")

ReadOnly(file) == [file EXCEPT !.writable = FALSE]
Missing        == [exists |-> FALSE, writable |-> TRUE, limited |-> FALSE, room |-> 0, data |-> <<>>]

\* a file for which the device takes no more than room bytes
Limited(file, room) == [file EXCEPT !.limited = TRUE, !.room = room]

\* the limits of the model: no byte, a part of the file, more than the file
Rooms == {0, 12, 64}

\* another process replaces the file between NewEditor's read and Save's
FileReplaced ==
    /\ pc = "editor"
    /\ editor # NilEditor
    /\ ~call.replaced
    /\ \E data \in {DocShort, DocBlock(D1, D0)} :
          disk' = [disk EXCEPT !["f1"] = File(data)]
    /\ call' = [call EXCEPT !.op = "replaced", !.replaced = TRUE]
    /\ UNCHANGED <<inputs, pc, locals, err, trace, history, updates, editor>>

(***************************************************************************)
(* The registries of the model.                                            *)
(***************************************************************************)

Tag(tagName, manifestDigest, lastModified) ==
    [Name |-> tagName, ManifestDigest |-> manifestDigest, LastModified |-> lastModified]

TagLatest         == Tag(LatestName, D1, "Wed, 25 Dec 2024 14:43:12 -0000")
TagLatestNoDigest == Tag(LatestName, <<>>, "Wed, 25 Dec 2024 14:43:12 -0000")
TagV1             == Tag(<<"v", "1">>, D1, "Wed, 25 Dec 2024 14:43:12 -0000")
TagV2             == Tag(<<"v", "2">>, D2, "Thu, 26 Dec 2024 09:00:00 -0000")
TagV2Sig          == Tag(<<"v", "2", ".", "s", "i", "g">>, D3, "2024-12-27T10:00:00Z")
TagV3NoDigest     == Tag(<<"v", "3">>, <<>>, "2024-12-27T10:00:00Z")
TagMain           == Tag(<<"m", "a", "i", "n">>, D3, "Tue, 24 Dec 2024 10:00:00 UTC")

PageOf(tags)  == [status |-> "ok", Tags |-> tags, HasAdditional |-> FALSE]
PageErr(kind) == [status |-> kind, Tags |-> <<>>, HasAdditional |-> FALSE]

Repo(pages, endless, zero, manifest) ==
    [pages |-> pages, endless |-> endless, zero |-> zero, manifest |-> manifest]

\* the pages a repository may serve
PageOptions ==
    { PageOf(<<>>), PageOf(<<TagLatest>>), PageOf(<<TagV1, TagLatest>>),
      PageOf(<<TagLatestNoDigest, TagV1>>), PageOf(<<TagV1>>), PageOf(<<TagV2, TagV2Sig>>),
      PageOf(<<TagV3NoDigest, TagMain>>), PageOf(<<TagV2, TagV1>>),
      PageErr("status"), PageErr("transport"), PageErr("decode") }

\* the number of tag pages of a repository of the model
MaxRegistryPages == 2

PageSeqs ==
    UNION { [1..n -> PageOptions] : n \in 1..MaxRegistryPages }

\* the tag patterns of the model
Patterns == {"", "^v[0-9]+$", "v", "^latest$", "("}

HostQuay  == <<"q", "u", "a", "y", ".", "i", "o">>
HostACR   == <<"a", ".", "a", "z", "u", "r", "e", "c", "r", ".", "i", "o">>
HostOther == <<"d", "o", "c", "k", "e", "r", ".", "i", "o">>
HostInner == <<"q", "u", "a", "y", ".", "i", "o", ".", "x">>

Source(host, repository, tagPattern) ==
    [Registry |-> host, Repository |-> repository, TagPattern |-> tagPattern]

Target(jsonPath, filePath) ==
    [JsonPath |-> jsonPath, FilePath |-> filePath]

ImageConfig(source, targets) ==
    [Source |-> source, Targets |-> targets]

(***************************************************************************)
(* The Quay client alone: one image without Targets, any repository.       *)
(***************************************************************************)

InitQuay ==
    /\ \E tagPattern \in Patterns :
          cfg = [Images |-> [n \in {"m"} |-> ImageConfig(Source(HostQuay, "r1", tagPattern), <<>>)]]
    /\ dryRun = FALSE
    /\ quayVersion \in {QuayGo, Part002}
    /\ acrClient = "nil"
    /\ \E pages \in PageSeqs, endless \in BOOLEAN, zero \in {"first", "status"} :
          registry = [r \in {"r1"} |-> Repo(pages, endless, zero, <<>>)]
    /\ disk = [f \in {"f1", "f2"} |-> File(DocShort)]
    /\ start = disk
    /\ pc = "range"
    /\ todo = {"m"}
    /\ name = ""
    /\ digest = <<>>
    /\ t = 0
    /\ page = 0
    /\ allTags = <<>>
    /\ err = NoErr
    /\ trace = <<>>
    /\ run = 1
    /\ results = <<>>
    /\ digests = NoDigests
    /\ updates = <<>>
    /\ editor = NilEditor
    /\ call = NoCall

NextQuay ==
    \/ RangeImages
    \/ FetchLatestDigest
    \/ TryGetLatestTag
    \/ GetDigestByTagPattern
    \/ GetTagsPage
    \/ SelectTag

SpecQuay == InitQuay /\ [][NextQuay]_vars

(***************************************************************************)
(* The Editor alone.                                                       *)
(***************************************************************************)

InitEditor ==
    /\ cfg = [Images |-> [n \in {} |-> 0]]
    /\ dryRun = FALSE
    /\ quayVersion = QuayGo
    /\ acrClient = "nil"
    /\ registry = [r \in {} |-> 0]
    /\ \E f1 \in { File(DocBlock(D0, D0)), File(DocBlock(D1, D0)), File(DocFlow), File(DocNext),
                   File(DocBad), File(DocShort), ReadOnly(File(DocBlock(D0, D0))), Missing }
                 \cup { Limited(File(DocBlock(D0, D0)), room) : room \in Rooms } :
          disk = [f \in {"f1", "f2"} |-> IF f = "f1" THEN f1 ELSE File(DocShort)]
    /\ start = disk
    /\ pc = "editor"
    /\ todo = {}
    /\ name = ""
    /\ digest = <<>>
    /\ t = 0
    /\ page = 0
    /\ allTags = <<>>
    /\ err = NoErr
    /\ trace = <<>>
    /\ run = 1
    /\ results = <<>>
    /\ digests = NoDigests
    /\ updates = <<>>
    /\ editor = NilEditor
    /\ call = NoCall

NextEditor ==
    \/ CallNewEditor
    \/ CallGetValue
    \/ CallSetValue
    \/ CallSave
    \/ FileReplaced

SpecEditor == InitEditor /\ [][NextEditor]_vars

(***************************************************************************)
(* The tool: runs of UpdateImages on one configuration, one after another. *)
(***************************************************************************)

SrcLatest  == Source(HostQuay, "r1", "")
SrcPattern == Source(HostQuay, "r1", "^v[0-9]+$")
SrcACR     == Source(HostACR, "a1", "")
SrcOther   == Source(HostOther, "r1", "")
SrcInner   == Source(HostInner, "r1", "")

OneTarget     == << Target(PathAD, "f1") >>
SameFile      == << Target(PathAD, "f1"), Target(PathB, "f1") >>
SecondMissing == << Target(PathAD, "f1"), Target(PathC, "f1") >>
TwoFiles      == << Target(PathB, "f1"), Target(PathAD, "f2") >>
NotScalar     == << Target(PathA, "f1") >>

\* the configurations of the model: config.Load accepts each
Configs ==
    { [Images |-> [n \in {"m"} |-> ImageConfig(SrcLatest, targets)]] :
          targets \in {<<>>, OneTarget, SameFile, SecondMissing, TwoFiles, NotScalar} }
    \cup
    { [Images |-> [n \in {"m"} |-> ImageConfig(source, targets)]] :
          source \in {SrcPattern, SrcACR, SrcOther, SrcInner}, targets \in {OneTarget, SameFile} }
    \cup
    { [Images |-> [n \in {"m", "h"} |->
                      IF n = "m" THEN ImageConfig(source, targets)
                      ELSE ImageConfig(SrcACR, << Target(PathB, "f2") >>)]] :
          source \in {SrcLatest, SrcPattern, SrcOther}, targets \in {OneTarget, SecondMissing} }

\* what quay.io may hold for the repository r1
QuayRepos ==
    { Repo(<< PageOf(<<TagLatest>>) >>, FALSE, "first", <<>>),
      Repo(<< PageOf(<<TagV2, TagV1>>) >>, FALSE, "first", <<>>),
      Repo(<< PageOf(<<TagV1, TagLatest>>), PageOf(<<TagV2, TagV2Sig>>) >>, FALSE, "first", <<>>),
      Repo(<< PageOf(<<TagV2, TagV1>>) >>, FALSE, "status", <<>>),
      Repo(<< PageErr("status") >>, FALSE, "first", <<>>) }

\* the ACR client and what the registry holds for the repository a1
ACRStates ==
    { <<"nil", D3>>, <<"ok", D3>>, <<"ok", <<>> >> }

\* what the file f1 may be when the tool starts
TargetFiles ==
    { File(DocBlock(D0, D0)), File(DocBlock(D1, D0)), File(DocFlow), File(DocNext),
      File(DocBad), ReadOnly(File(DocBlock(D0, D0))), Missing }

Init ==
    /\ cfg \in Configs
    /\ dryRun \in BOOLEAN
    /\ quayVersion \in {QuayGo, Part002}
    /\ \E acr \in ACRStates, r1 \in QuayRepos :
          /\ acrClient = acr[1]
          /\ registry = [r \in {"r1", "a1"} |->
                            IF r = "r1" THEN r1
                            ELSE Repo(<< PageOf(<<>>) >>, FALSE, "first", acr[2])]
    /\ \E f1 \in TargetFiles :
          disk = [f \in {"f1", "f2"} |-> IF f = "f1" THEN f1 ELSE File(DocBlock(D0, D0))]
    /\ start = disk
    /\ pc = "range"
    /\ todo = DOMAIN cfg.Images
    /\ name = ""
    /\ digest = <<>>
    /\ t = 0
    /\ page = 0
    /\ allTags = <<>>
    /\ err = NoErr
    /\ trace = <<>>
    /\ run = 1
    /\ results = <<>>
    /\ digests = NoDigests
    /\ updates = <<>>
    /\ editor = NilEditor
    /\ call = NoCall

Next ==
    \/ RangeImages
    \/ FetchLatestDigest
    \/ TryGetLatestTag
    \/ GetDigestByTagPattern
    \/ GetTagsPage
    \/ SelectTag
    \/ UpdateImage
    \/ Rerun

Spec == Init /\ [][Next]_vars

(***************************************************************************)
(* Properties of Editor.Save (SpecEditor).  call.before is the content of  *)
(* the file when the call was made, editor.updates the batch.              *)
(***************************************************************************)

\* the lines of a file's content
LinesOf(data) == Split(data, "\n")

\* line holds a ":" and k is the position of the first one
IsFirstColon(line, k) ==
    /\ k \in 1..Len(line)
    /\ line[k] = ":"
    /\ \A j \in 1..(k - 1) : line[j] # ":"

\* Save has just returned without error
Saved == call.op = "Save" /\ ~Failed(call.err)

\* the entry l of a batch cannot be applied to the lines old
InvalidEdit(old, l) ==
    \/ l < 1
    \/ l > Len(old)
    \/ \A k \in 1..Len(old[l]) : old[l][k] # ":"

\* C3: a successful Save changes only the physical lines its edits name:
\* the file has as many lines as before and every line that no edit names,
\* template placeholders included, is byte for byte what it was; no other
\* file changes.
C3_OnlyNamedLinesChange ==
    Saved =>
        LET old == LinesOf(call.before)
            new == LinesOf(disk["f1"].data)
        IN  /\ Len(new) = Len(old)
            /\ \A l \in 1..Len(old) : l \notin DOMAIN editor.updates => new[l] = old[l]
            /\ disk["f2"] = start["f2"]

\* a Save that rewrote the digest lines of the block document and left the
\* comment line and the template line next to them as they were
C3_Witness ==
    /\ Saved
    /\ call.before = DocBlock(D0, D0)
    /\ disk["f1"].data # call.before
    /\ DOMAIN editor.updates = {3}
    /\ LinesOf(disk["f1"].data)[4] = <<" ", " ", "t", ":", " ", "\"", "{", "{", "x", "}", "}", "\"">>
    /\ LinesOf(disk["f1"].data)[1] = <<"#", " ", "c">>

\* C4: after a successful Save every edited line is the old line up to and
\* including its first colon, then one space, then the new value.
C4_EditedLineShape ==
    Saved =>
        LET old == LinesOf(call.before)
            new == LinesOf(disk["f1"].data)
        IN  \A l \in DOMAIN editor.updates :
                /\ l \in 1..Len(old)
                /\ l \in 1..Len(new)
                /\ \E k \in 1..Len(old[l]) :
                      /\ IsFirstColon(old[l], k)
                      /\ new[l] = SubSeq(old[l], 1, k) \o <<" ">> \o editor.updates[l]

\* a Save of two edits, one of them on a line with a second colon and a
\* trailing comment after the first
C4_Witness ==
    /\ Saved
    /\ call.before = DocBlock(D0, D0)
    /\ DOMAIN editor.updates = {3, 5}
    /\ editor.updates[3] = D2
    /\ LinesOf(disk["f1"].data)[3] = <<" ", " ", "d", ":", " ", "s", ":", "2">>

\* C5: when an edit of the batch names a line below 1, a line beyond the
\* last line or a line without a colon, Save returns an error and the file
\* is what it was, whatever the order in which the edits were processed.
C5_InvalidEditLeavesFile ==
    (call.op = "Save" /\ \E l \in DOMAIN editor.updates : InvalidEdit(LinesOf(call.before), l)) =>
        /\ Failed(call.err)
        /\ disk["f1"].data = call.before
        /\ disk["f2"] = start["f2"]

\* a Save of two edits that processed a valid one first and then failed on
\* an invalid one
C5_Witness ==
    /\ call.op = "Save"
    /\ Failed(call.err)
    /\ Len(call.order) = 2
    /\ ~InvalidEdit(LinesOf(call.before), call.order[1])
    /\ InvalidEdit(LinesOf(call.before), call.order[2])
    /\ disk["f1"].data = call.before

(***************************************************************************)
(* Properties of the run (Spec).  trace holds the I/O and the reports of   *)
(* this run, results what the earlier runs returned.                       *)
(***************************************************************************)

\* the positions of the trace that hold an entry of the kind op
Positions(op) == {i \in 1..Len(trace) : trace[i].op = op}

\* what a fresh Editor reads at the path of a Target
ReadTarget(fs, target) ==
    GetValue(NewEditor(fs, target.FilePath).editor, target.JsonPath)

\* the Targets of the configuration, as pairs of image name and index
AllTargets ==
    {nk \in (DOMAIN cfg.Images) \X (1..2) : nk[2] <= Len(cfg.Images[nk[1]].Targets)}

\* a run in normal mode has returned without error
RunSucceeded == pc = "done" /\ ~dryRun /\ ~Failed(err)

\* C1: when a run in normal mode has returned without error and the tool is
\* run again on the same registry, the second run reports no Target as
\* needing an update, writes no file and returns no error.
C1_SecondRunIdle ==
    (run = 2 /\ ~dryRun /\ ~Failed(results[1])) =>
        /\ Positions("write") = {}
        /\ \A i \in Positions("report") : trace[i].what # "update needed"
        /\ ~Failed(err)
        /\ disk = start

\* C2: after a run in normal mode has returned without error, reading the
\* path of every Target of every image from its file yields the digest
\* resolved for the image.
C2_TargetsHoldDigest ==
    RunSucceeded =>
        \A nk \in AllTargets :
            LET read == ReadTarget(disk, cfg.Images[nk[1]].Targets[nk[2]])
            IN  ~Failed(read.err) /\ read.value = digests[nk[1]]

\* C6: in dry-run mode the files stay what they were when the run started;
\* and a dry run that returns without error has sent a request for every
\* image and has, for every Target, read the file and reported the outcome
\* of comparing the value at the path with the image's digest.
C6_DryRunReadsOnly ==
    dryRun =>
        /\ disk = start
        /\ Positions("write") = {}
        /\ (pc = "done" /\ ~Failed(err)) =>
              /\ \A n \in DOMAIN cfg.Images :
                    /\ n \in DOMAIN digests
                    /\ \E i \in Positions("request") : trace[i].image = n
              /\ \A nk \in AllTargets :
                    LET target == cfg.Images[nk[1]].Targets[nk[2]]
                        read   == ReadTarget(start, target)
                        what   == IF read.value = digests[nk[1]]
                                  THEN "no update needed" ELSE "dry run"
                    IN  /\ ~Failed(read.err)
                        /\ \E i \in Positions("read"), j \in Positions("report") :
                              /\ i < j
                              /\ trace[i] = ReadOf(target.FilePath)
                              /\ trace[j] = Report(nk[1], target.FilePath, nk[2], what)

\* a dry run over two Targets of one file that found both stale and
\* returned without error
C6_Witness ==
    /\ dryRun
    /\ pc = "done"
    /\ ~Failed(err)
    /\ cfg.Images["m"].Targets = SameFile
    /\ Cardinality({i \in Positions("report") : trace[i].what = "dry run"}) = 2
    /\ Positions("request") # {}

\* C7: a failure ends the run at once: the failure is the last entry of the
\* trace, so no request, read or write follows it, for this image or a
\* later one, and UpdateImages has returned an error.
C7_FailFast ==
    \A i \in Positions("error") :
        /\ i = Len(trace)
        /\ pc = "done"
        /\ Failed(err)

\* a run that wrote the first Target of an image, failed at the second and
\* returned while another image was still to come
C7_Witness ==
    /\ pc = "done"
    /\ Failed(err)
    /\ t = 2
    /\ todo # {}
    /\ Positions("write") # {}
    /\ Positions("error") = {Len(trace)}

\* C8: a file is written at most once in a run, and when the run fails at a
\* Target, the file of that Target is what it was when the run started.
C8_OneWritePerFile ==
    /\ \A f \in DOMAIN disk : Cardinality({i \in Positions("write") : trace[i].file = f}) <= 1
    /\ (pc = "done" /\ Failed(err) /\ t > 0) =>
           LET f == cfg.Images[name].Targets[t].FilePath
           IN  disk[f] = start[f]

(***************************************************************************)
(* Properties of the Quay client (SpecQuay): the image m, repository r1.   *)
(***************************************************************************)

\* the tag pattern of the one image
TagPatternOfM == cfg.Images["m"].Source.TagPattern

\* the tags of the pages of the repository that decode
TagsOfRepo ==
    LET pages == registry["r1"].pages
    IN  UNION { {pages[i].Tags[j] : j \in 1..Len(pages[i].Tags)} :
                    i \in {i \in 1..Len(pages) : pages[i].status = "ok"} }

\* the tags named latest, with a digest, of the first page of the repository
LatestOnFirstPage ==
    LET first == registry["r1"].pages[1]
    IN  IF first.status # "ok" THEN {}
        ELSE {first.Tags[j] : j \in {j \in 1..Len(first.Tags) :
                  first.Tags[j].Name = LatestName /\ first.Tags[j].ManifestDigest # <<>>}}

\* C9: without a tag pattern, when the first page holds a tag named latest
\* with a digest, the client sends one page request and no more, and
\* returns the digest of that tag.
C9_LatestFastPath ==
    (TagPatternOfM = "" /\ LatestOnFirstPage # {}) =>
        /\ Cardinality(Positions("request")) <= 1
        /\ (pc = "done") =>
              /\ ~Failed(err)
              /\ Cardinality(Positions("request")) = 1
              /\ \E tag \in LatestOnFirstPage : digests["m"] = tag.ManifestDigest

\* C10: with a tag pattern, the digest the client returns is the digest of
\* a tag of the repository whose name matches the pattern.
C10_ReturnedTagMatches ==
    (TagPatternOfM # "" /\ pc = "done" /\ ~Failed(err)) =>
        \E tag \in TagsOfRepo :
            /\ MatchString(TagPatternOfM, tag.Name)
            /\ tag.ManifestDigest = digests["m"]

(***************************************************************************)
(* The selector alone: getDigestByTagPattern from its filter on, called on *)
(* a list of tags more than once.  allTags is the list, results what the   *)
(* calls returned.                                                         *)
(***************************************************************************)

\* the length of the tag lists of the model
MaxTags == 3

\* the number of calls of the selector the model follows
MaxCalls == 2

TagV4     == Tag(<<"v", "4">>, D3, "Thu, 26 Dec 2024 09:00:00 -0000")
TagV1Att  == Tag(<<"v", "1", ".", "a", "t", "t">>, D3, "Thu, 26 Dec 2024 09:00:00 -0000")
TagV1Sbom == Tag(<<"v", "1", ".", "s", "b", "o", "m">>, D2, "Thu, 26 Dec 2024 09:00:00 -0000")

\* the tags a list may hold
SelectorTags ==
    {TagLatest, TagV1, TagV2, TagV4, TagV2Sig, TagV1Att, TagV1Sbom, TagV3NoDigest, TagMain}

TagLists ==
    UNION { [1..n -> SelectorTags] : n \in 0..MaxTags }

InitSelect ==
    /\ \E tagPattern \in Patterns \ {"("} :
          cfg = [Images |-> [n \in {"m"} |-> ImageConfig(Source(HostQuay, "r1", tagPattern), <<>>)]]
    /\ dryRun = FALSE
    /\ quayVersion \in {QuayGo, Part002}
    /\ acrClient = "nil"
    /\ registry = [r \in {} |-> 0]
    /\ disk = [f \in {"f1", "f2"} |-> File(DocShort)]
    /\ start = disk
    /\ pc = "selector"
    /\ todo = {}
    /\ name = "m"
    /\ digest = <<>>
    /\ t = 0
    /\ page = 0
    /\ allTags \in TagLists
    /\ err = NoErr
    /\ trace = <<>>
    /\ run = 1
    /\ results = <<>>
    /\ digests = NoDigests
    /\ updates = <<>>
    /\ editor = NilEditor
    /\ call = NoCall

\* getDigestByTagPattern, from its filter on, on the tags allTags
CallSelector ==
    /\ pc = "selector"
    /\ Len(results) < MaxCalls
    /\ \E mostRecent \in {SelectedTag(quayVersion, allTags, ImageConfigOf(name).Source.TagPattern)} :
          \E sel \in {SelectDigest(quayVersion, allTags, ImageConfigOf(name).Source.TagPattern)} :
             /\ results' = Append(results, [err |-> sel.err, digest |-> sel.digest, tag |-> mostRecent])
             /\ digest' = sel.digest
             /\ err' = sel.err
    /\ UNCHANGED <<inputs, disk, start, pc, todo, name, t, page, allTags, trace, run, digests,
                   updates, edvars>>

NextSelect ==
    CallSelector

SpecSelect == InitSelect /\ [][NextSelect]_vars

(***************************************************************************)
(* Properties of the selector (SpecSelect).                                *)
(***************************************************************************)

\* the tag pattern the selector is called with
SelectorPattern == cfg.Images["m"].Source.TagPattern

\* the name ends in .sig, .att or .sbom
MetadataName(tagName) ==
    \E suffix \in { <<".", "s", "i", "g">>, <<".", "a", "t", "t">>, <<".", "s", "b", "o", "m">> } :
        /\ Len(tagName) >= Len(suffix)
        /\ SubSeq(tagName, Len(tagName) - Len(suffix) + 1, Len(tagName)) = suffix

\* C11: the tag the pattern path selects never has a name ending in .sig,
\* .att or .sbom, whatever its digest, its timestamp and the pattern.
C11_MetadataNeverSelected ==
    \A i \in 1..Len(results) : ~MetadataName(results[i].tag.Name)

\* a call that selected v1 although v1.att matches the pattern, carries a
\* digest and is newer
C11_Witness ==
    /\ Len(results) >= 1
    /\ allTags = <<TagV1, TagV1Att>>
    /\ SelectorPattern = "v"
    /\ MatchString(SelectorPattern, TagV1Att.Name)
    /\ compareTimestamps(TagV1Att.LastModified, TagV1.LastModified)
    /\ results[1].tag = TagV1

(***************************************************************************)
(* More properties of the Quay client (SpecQuay).                          *)
(***************************************************************************)

\* the pattern path may select the tag: its name matches the pattern, it is
\* no metadata tag and it has a digest
Eligible(tag, tagPattern) ==
    /\ MatchString(tagPattern, tag.Name)
    /\ ~MetadataName(tag.Name)
    /\ tag.ManifestDigest # <<>>

\* the innermost message of an error
Cause(e) == e[Len(e)].fmt

\* C12: a digest returned without error is never empty; and when the crawl
\* has ended and none of its tags is eligible, the client returns the
\* error "no tags matching pattern" and no digest.
C12_NoEmptyDigest ==
    /\ [](pc = "done" /\ ~Failed(err) => "m" \in DOMAIN digests /\ digests["m"] # <<>>)
    /\ [][(pc = "select" /\ \A i \in 1..Len(allTags) : ~Eligible(allTags[i], TagPatternOfM)) =>
              /\ pc' = "done"
              /\ Failed(err')
              /\ Cause(err') = "no tags matching pattern %s found for repository %s"
              /\ digests' = NoDigests]_vars

\* a crawl that found a tag matching the pattern, but none with a digest,
\* and returned the error
C12_Witness ==
    /\ pc = "done"
    /\ Failed(err)
    /\ Cause(err) = "no tags matching pattern %s found for repository %s"
    /\ TagPatternOfM = "^v[0-9]+$"
    /\ \E i \in 1..Len(allTags) : allTags[i] = TagV3NoDigest
    /\ digests = NoDigests

(***************************************************************************)
(* More properties of the selector (SpecSelect).                           *)
(***************************************************************************)

\* the instant a last_modified string denotes
InstantOf(lastModified) == TimeTable[lastModified].instant

\* C13: the tag the pattern path selects is eligible, and no eligible tag
\* of the list has a last-modified time strictly later than its own.
C13_NewestSelected ==
    \A i \in 1..Len(results) :
        results[i].tag # NilTag =>
            /\ Eligible(results[i].tag, SelectorPattern)
            /\ \A j \in 1..Len(allTags) :
                  Eligible(allTags[j], SelectorPattern) =>
                      InstantOf(allTags[j].LastModified) <= InstantOf(results[i].tag.LastModified)

C15_CrawlBounded ==
    Cardinality(Positions("request")) <= maxPages + 1

\* the first page of the repository holds a tag named latest without digest
LatestWithoutDigest ==
    LET first == registry["r1"].pages[1]
    IN  /\ first.status = "ok"
        /\ \E j \in 1..Len(first.Tags) :
              first.Tags[j].Name = LatestName /\ first.Tags[j].ManifestDigest = <<>>

\* C16: without a tag pattern, when the first page holds a tag named latest
\* without digest, the client returns an error and no digest, and sends no
\* request after the one for the first page.
C16_LatestWithoutDigestFails ==
    (TagPatternOfM = "" /\ LatestWithoutDigest) =>
        /\ Cardinality(Positions("request")) <= 1
        /\ (pc = "done") => (Failed(err) /\ digests = NoDigests)

\* C17: with a tag pattern that does not compile, the client returns the
\* error "invalid tag pattern" and no digest, whatever the repository holds.
C17_InvalidPatternFails ==
    (TagPatternOfM = "(" /\ pc = "done") =>
        /\ Failed(err)
        /\ Cause(err) = "invalid tag pattern %s"
        /\ digests = NoDigests

\* the request at position i of the trace ended in a transport error or a
\* status other than 200
RequestFailed(i) ==
    Respond(registry["r1"], trace[i].n).status \in {"transport", "status"}

\* C18: when a page request ends in a transport error or a non-success
\* status, the failure is recorded right after it and nothing follows: no
\* other request, none for the same page; the client has returned an error
\* and no digest, whatever tags the earlier pages held.
C18_PageFailureEndsResolution ==
    \A i \in Positions("request") :
        RequestFailed(i) =>
            /\ Len(trace) = i + 1
            /\ trace[i + 1].op = "error"
            /\ pc = "done"
            /\ Failed(err)
            /\ digests = NoDigests

\* a crawl that had collected an eligible tag when a later page failed
C18_Witness ==
    /\ pc = "done"
    /\ Failed(err)
    /\ Cardinality(Positions("request")) >= 2
    /\ \E i \in Positions("request") : RequestFailed(i) /\ trace[i].n = 2
    /\ \E k \in 1..Len(allTags) : Eligible(allTags[k], TagPatternOfM)
    /\ digests = NoDigests

(***************************************************************************)
(* More properties of the run (Spec).                                      *)
(***************************************************************************)

\* s ends in suffix
EndsIn(s, suffix) ==
    /\ Len(s) >= Len(suffix)
    /\ SubSeq(s, Len(s) - Len(suffix) + 1, Len(s)) = suffix

\* the registry host of the image n ends in quay.io or in azurecr.io
KnownHost(n) ==
    \/ EndsIn(cfg.Images[n].Source.Registry, <<"q", "u", "a", "y", ".", "i", "o">>)
    \/ EndsIn(cfg.Images[n].Source.Registry, <<"a", "z", "u", "r", "e", "c", "r", ".", "i", "o">>)

\* C19: the client is chosen by the suffix of the host: no request is made
\* for an image whose host ends in neither suffix, and once the run has
\* looked at the source of such an image it has returned the error
\* "unsupported registry"; for a host ending in quay.io the Quay client is
\* entered, for one ending in azurecr.io the ACR client.
C19_DispatchBySuffix ==
    /\ \A i \in Positions("request") : KnownHost(trace[i].image)
    /\ (name \in DOMAIN cfg.Images /\ ~KnownHost(name) /\ pc # "fetch") =>
           /\ pc = "done"
           /\ Failed(err)
           /\ Cause(err) = "unsupported registry: %s"
    /\ pc \in {"tryGetLatestTag", "getDigestByTagPattern", "getTags", "select"} =>
           EndsIn(cfg.Images[name].Source.Registry, <<"q", "u", "a", "y", ".", "i", "o">>)

\* the registry host of the image n is one fetchLatestDigest has no client for
Unsupported(n) ==
    /\ ~Contains(cfg.Images[n].Source.Registry, <<"q", "u", "a", "y", ".", "i", "o">>)
    /\ ~Contains(cfg.Images[n].Source.Registry, <<"a", "z", "u", "r", "e", "c", "r", ".", "i", "o">>)

\* C20: when the configuration holds an image with an unsupported registry
\* host, the run sends no request and reads and writes no file, for any
\* image, and it ends with an error.
C20_ConfigErrorsFirst ==
    (\E n \in DOMAIN cfg.Images : Unsupported(n)) =>
        /\ Positions("request") = {}
        /\ Positions("read") = {}
        /\ Positions("write") = {}
        /\ (pc = "done") => Failed(err)

(***************************************************************************)
(* Properties of Editor.GetValue (SpecEditor).                             *)
(***************************************************************************)

RECURSIVE Resolved(_, _)
\* the nodes the segments parts lead to from node (none or one): each
\* segment is the key of an entry of the mapping reached so far, the first
\* with that key, and leads to the value of the entry
Resolved(node, parts) ==
    IF parts = <<>> THEN {node}
    ELSE IF node.Kind # MappingNode THEN {}
    ELSE UNION { Resolved(node.Content[2 * i], Tail(parts)) :
                    i \in { i \in 1..(Len(node.Content) \div 2) :
                               /\ node.Content[2 * i - 1].Value = Head(parts)
                               /\ \A j \in 1..(i - 1) : node.Content[2 * j - 1].Value # Head(parts) } }

\* the nodes the path of the last call leads to in the document of the editor
Target21 ==
    UNION { Resolved(top, Split(call.path, ".")) :
               top \in { editor.root.Content[i] : i \in 1..Len(editor.root.Content) } }

\* C21: GetValue returns the value of the scalar that the dot-separated
\* segments of the path lead to through the mappings of the document, and no
\* error; it returns "path not found" when a segment is no key of the node
\* reached so far or that node is no mapping; it returns "does not point to
\* a scalar value" when the segments lead to a mapping or a sequence; and a
\* call of GetValue changes neither the editor's document nor the files.
C21_PathLookup ==
    /\ [](call.op = "GetValue" =>
            /\ Target21 = {} =>
                   call.err = Errorf("path %s not found", call.path) /\ call.value = <<>>
            /\ \A n \in Target21 :
                   IF n.Kind = ScalarNode
                   THEN call.err = NoErr /\ call.value = n.Value
                   ELSE /\ n.Kind \in {MappingNode, SequenceNode}
                        /\ call.err = Errorf("path %s does not point to a scalar value", call.path)
                        /\ call.value = <<>>)
    /\ [][call'.op = "GetValue" => (editor' = editor /\ disk' = disk)]_vars

\* a lookup of the nested path a.d that returned the digest of the file
C21_Witness ==
    /\ call.op = "GetValue"
    /\ call.path = PathAD
    /\ call.err = NoErr
    /\ call.value = D0
    /\ Cardinality(Target21) = 1

(***************************************************************************)
(* pkg/config: Load.  The configuration file is held as what os.ReadFile   *)
(* and yaml.Unmarshal make of it: a key the file leaves out decodes to the *)
(* zero value of its field.                                                *)
(***************************************************************************)

\* the nil *Config
NilConfig == [nil |-> TRUE]

\* the zero Config
ZeroConfig == [Images |-> [n \in {} |-> 0]]

\* a configuration file: absent when ~exists, rejected by yaml.Unmarshal
\* when ~yaml, else decoded into the Config decoded
ConfigFile(exists, yaml, decoded) ==
    [exists |-> exists, yaml |-> yaml, decoded |-> decoded]

RECURSIVE validateTargets(_, _)
\* the loop of validate over the Targets of the image name
validateTargets(imageName, targets) ==
    IF targets = <<>> THEN NoErr
    ELSE IF Head(targets).JsonPath = <<>>
    THEN Errorf("image %s: target jsonPath is required", imageName)
    ELSE IF Head(targets).FilePath = ""
    THEN Errorf("image %s: target filePath is required", imageName)
    ELSE validateTargets(imageName, Tail(targets))

RECURSIVE validateSourcesOnly(_, _)
\* a faulty validate that does not look at the Targets
validateSourcesOnly(c, order) ==
    IF DOMAIN c.Images = {} THEN Errorf("no images configured", "")
    ELSE IF order = <<>> THEN NoErr
    ELSE IF c.Images[Head(order)].Source.Registry = <<>>
    THEN Errorf("image %s: source registry is required", Head(order))
    ELSE IF c.Images[Head(order)].Source.Repository = ""
    THEN Errorf("image %s: source repository is required", Head(order))
    ELSE validateSourcesOnly(c, Tail(order))

RECURSIVE validateImages(_, _)
\* the loop of validate over c.Images, the range yielding the names in `order`
validateImages(c, order) ==
    IF order = <<>> THEN NoErr
    ELSE IF c.Images[Head(order)].Source.Registry = <<>>
    THEN Errorf("image %s: source registry is required", Head(order))
    ELSE IF c.Images[Head(order)].Source.Repository = ""
    THEN Errorf("image %s: source repository is required", Head(order))
    ELSE Let(validateTargets(Head(order), c.Images[Head(order)].Targets), LAMBDA e :
             IF Failed(e) THEN e ELSE validateImages(c, Tail(order)))

\* Config.validate()
validate(c, order) ==
    IF DOMAIN c.Images = {} THEN Errorf("no images configured", "")
    ELSE validateImages(c, order)

\* config.Load(configPath)
Load(fs, configPath, order) ==
    IF ~fs[configPath].exists
    THEN [err |-> Wrap("failed to read config file %s", configPath,
                       Errorf("open: no such file", configPath)),
          cfg |-> NilConfig]
    ELSE IF ~fs[configPath].yaml
    THEN [err |-> Wrap("failed to parse config file %s", configPath, Errorf("yaml", configPath)),
          cfg |-> NilConfig]
    ELSE Let(validate(fs[configPath].decoded, order), LAMBDA e :
             IF Failed(e)
             THEN [err |-> Wrap("invalid configuration", "", e), cfg |-> NilConfig]
             ELSE [err |-> NoErr, cfg |-> fs[configPath].decoded])

\* config.Load(configPath) by the command
LoadConfig ==
    /\ pc = "load"
    /\ \E order \in RangeOrders(DOMAIN disk["config.yaml"].decoded.Images) :
          LET r == Load(disk, "config.yaml", order)
          IN  /\ cfg' = r.cfg
              /\ err' = r.err
              /\ call' = [call EXCEPT !.op = "Load", !.order = order]
    /\ pc' = "loaded"
    /\ UNCHANGED <<dryRun, quayVersion, acrClient, registry, disk, locals, trace, history, updates, editor>>

\* the Targets sections a configuration file may hold for an image
TargetsOptions ==
    { <<>>,
      << Target(PathAD, "f1") >>,
      << Target(<<>>, "f1") >>,
      << Target(PathAD, "") >>,
      << Target(PathAD, "f1"), Target(<<>>, "f2") >>,
      << Target(PathAD, "f1"), Target(PathB, "") >> }

\* the image sections a configuration file may hold
ImageOptions ==
    { ImageConfig(Source(host, repository, ""), targets) :
          host \in {<<>>, HostQuay}, repository \in {"", "r1"}, targets \in TargetsOptions }

\* the configuration files of the model
ConfigFiles ==
    { ConfigFile(FALSE, FALSE, ZeroConfig), ConfigFile(TRUE, FALSE, ZeroConfig),
      ConfigFile(TRUE, TRUE, ZeroConfig) }
    \cup
    { ConfigFile(TRUE, TRUE, [Images |-> [n \in {"m"} |-> m]]) : m \in ImageOptions }
    \cup
    { ConfigFile(TRUE, TRUE, [Images |-> [n \in {"m", "h"} |-> IF n = "m" THEN m ELSE h]]) :
          m \in ImageOptions, h \in ImageOptions }

InitLoad ==
    /\ cfg = NilConfig
    /\ dryRun = FALSE
    /\ quayVersion = QuayGo
    /\ acrClient = "nil"
    /\ registry = [r \in {} |-> 0]
    /\ \E file \in ConfigFiles : disk = [f \in {"config.yaml"} |-> file]
    /\ start = disk
    /\ pc = "load"
    /\ todo = {}
    /\ name = ""
    /\ digest = <<>>
    /\ t = 0
    /\ page = 0
    /\ allTags = <<>>
    /\ err = NoErr
    /\ trace = <<>>
    /\ run = 1
    /\ results = <<>>
    /\ digests = NoDigests
    /\ updates = <<>>
    /\ editor = NilEditor
    /\ call = NoCall

NextLoad == LoadConfig

SpecLoad == InitLoad /\ [][NextLoad]_vars

(***************************************************************************)
(* Properties of config.Load (SpecLoad).                                   *)
(***************************************************************************)

\* the file of the configuration
ConfigYaml == disk["config.yaml"]

\* c holds an image, every image of c has a registry and a repository, and
\* every Target of c has a jsonPath and a filePath
Complete(c) ==
    /\ DOMAIN c.Images # {}
    /\ \A n \in DOMAIN c.Images :
          /\ c.Images[n].Source.Registry # <<>>
          /\ c.Images[n].Source.Repository # ""
          /\ \A i \in 1..Len(c.Images[n].Targets) :
                /\ c.Images[n].Targets[i].JsonPath # <<>>
                /\ c.Images[n].Targets[i].FilePath # ""

Declared == <<"m", "h">>

\* the image that the event at position i of the trace is for: its own, or
\* for a file access that of the report or failure that follows it
ImageOf(i) ==
    LET later == { j \in i..Len(trace) : trace[j].image # "" }
    IN  IF later = {} THEN "" ELSE trace[CHOOSE j \in later : \A k \in later : j <= k].image

\* C23: the images are processed in the order in which the configuration
\* declares them: every registry request and file access for an image comes
\* before any for an image declared after it (so that two runs on the same
\* configuration process the images in the same order).
C23_DeclaredOrder ==
    \A a, b \in 1..Len(Declared) :
        a < b =>
            \A i, j \in 1..Len(trace) :
                (ImageOf(i) = Declared[a] /\ ImageOf(j) = Declared[b]) => i < j

(***************************************************************************)
(* The update list of a run (Spec).                                        *)
(***************************************************************************)

\* the positions of the trace at which a file was rewritten: a write that
\* is followed by the report of the update, not by a failure
Rewrites ==
    { i \in Positions("write") : i < Len(trace) /\ trace[i + 1].op = "report" }

\* the report of the k-th rewrite of the run
RewriteReport(k) ==
    trace[(CHOOSE i \in Rewrites : Cardinality({j \in Rewrites : j < i}) = k - 1) + 1]

C25_NoPatternMostRecent ==
    (TagPatternOfM = "" /\ pc = "done" /\ ~Failed(err)) =>
        \E tag \in TagsOfRepo :
            /\ tag.ManifestDigest = digests["m"]
            /\ \A other \in TagsOfRepo :
                  Eligible(other, "") =>
                      InstantOf(other.LastModified) <= InstantOf(tag.LastModified)

(***************************************************************************)
(* The context of the errors of a run (Spec).                              *)
(***************************************************************************)

\* the error e holds a message of one of the formats whose argument is x
Names(e, formats, x) ==
    \E i \in 1..Len(e) : e[i].fmt \in formats /\ e[i].arg = x

\* the error e holds a message of one of the formats
HasMessage(e, formats) ==
    \E i \in 1..Len(e) : e[i].fmt \in formats

\* the messages that name an image, a file, a logical path, a line
ImageFormats == {"failed to update image %s"}
FileFormats  == {"failed to load target file %s", "failed to read file %s",
                 "failed to parse YAML file %s", "failed to write file %s"}
PathFormats  == {"failed to get current digest at path %s", "path %s not found",
                 "path %s does not point to a scalar value"}
LineFormats  == {"invalid line number %d", "line %d does not contain a colon"}

\* C26: an error returned by UpdateImages carries the context of where it
\* arose: a failure to resolve the digest of an image names the image; a
\* failure to load a Target's file names the file, a failure to look up the
\* Target's path names the file and the path; a failure to patch names the
\* file, and the line when a line could not be patched.
C26_ErrorContext ==
    (pc = "done" /\ Failed(err)) =>
        /\ HasMessage(err, {"failed to fetch latest digest"}) => Names(err, ImageFormats, name)
        /\ HasMessage(err, {"failed to load target file %s"}) =>
               Names(err, FileFormats, cfg.Images[name].Targets[t].FilePath)
        /\ HasMessage(err, {"failed to get current digest at path %s"}) =>
               /\ Names(err, FileFormats, cfg.Images[name].Targets[t].FilePath)
               /\ Names(err, PathFormats, cfg.Images[name].Targets[t].JsonPath)
        /\ HasMessage(err, {"failed to set new digest", "failed to save file"}) =>
               /\ Names(err, FileFormats, cfg.Images[name].Targets[t].FilePath)
               /\ HasMessage(err, LineFormats) =>
                      \E l \in 1..Len(LinesOf(disk[cfg.Images[name].Targets[t].FilePath].data)) :
                          Names(err, LineFormats, l)

(***************************************************************************)
(* The crawl of the tag pages (SpecQuay).                                  *)
(***************************************************************************)

\* the page numbers of the requests of the crawl, in the order they were
\* sent: those of the trace, without the probe of tryGetLatestTag that the
\* client of quay.go sends before its crawl
CrawlRequests ==
    LET reqs == [k \in 1..Cardinality(Positions("request")) |->
                    trace[CHOOSE i \in Positions("request") :
                              Cardinality({j \in Positions("request") : j < i}) = k - 1].n]
    IN  IF quayVersion = QuayGo THEN Tail(reqs) ELSE reqs

\* the repository serves every one of its pages, and no page after the last
WellPaged ==
    /\ ~registry["r1"].endless
    /\ \A i \in 1..Len(registry["r1"].pages) : registry["r1"].pages[i].status = "ok"

\* C27: when the repository has N tag pages, N within the page cap, a crawl
\* that has ended has requested the pages 1, 2, ..., N in this order, each
\* once, and no other page, and the tags it has accumulated are those of
\* the pages 1 to N, in this order.
C27_PagesInOrder ==
    (pc = "select" /\ WellPaged /\ Len(registry["r1"].pages) <= maxPages) =>
        /\ CrawlRequests = [k \in 1..Len(registry["r1"].pages) |-> k]
        /\ allTags = Flatten([k \in 1..Len(registry["r1"].pages) |-> registry["r1"].pages[k].Tags])

(***************************************************************************)
(* The write of Editor.Save (SpecEditor).                                  *)
(***************************************************************************)

\* the text a Save of the editor's batch on the content before is to write
Patched(before) ==
    Join(SaveLines(LinesOf(before), editor.updates, call.order).lines, "\n")

\* C28: the write of Save is all-or-nothing: after a Save, failed or not,
\* the file holds the whole of its old content or the whole of the patched
\* text, never an empty, truncated or partly written text.
C28_WriteAllOrNothing ==
    (call.op = "Save" /\ disk["f1"].exists) =>
        \/ disk["f1"].data = call.before
        \/ disk["f1"].data = Patched(call.before)

(***************************************************************************)
(* The order of the timestamps (SpecSelect).                               *)
(***************************************************************************)

\* the last-modified strings of the tags of the list
Timestamps == { allTags[i].LastModified : i \in 1..Len(allTags) }

PathAT == <<"a", ".", "t">>

\* the scalars that the path leads to in the document that data holds
\* (none or one; none when data is no document)
ScalarsAt(data, path) ==
    IF ~Unmarshal(data).ok THEN {}
    ELSE { n \in UNION { Resolved(Unmarshal(data).root.Content[i], Split(path, ".")) :
                            i \in 1..Len(Unmarshal(data).root.Content) } :
              n.Kind = ScalarNode }

\* the scalar at the path is none that the editor has set: the editor's
\* document holds for it the value of the file
Unedited(path) ==
    \A n \in ScalarsAt(call.before, path) : GetValue(editor, path).value = n.Value

\* C30: a successful Save (its values hold no line break) leaves the number
\* of lines of the file what it was, and every scalar of the document other
\* than those edited is found after the patch at its path, with its value
\* and on the line recorded for it, so that later edits by line number hit
\* its line.
C30_LineNumbersStay ==
    (Saved /\ ~call.replaced) =>
        /\ Len(LinesOf(disk["f1"].data)) = Len(LinesOf(call.before))
        /\ \A path \in Paths \cup {PathAT} :
              Unedited(path) =>
                  \A n \in ScalarsAt(call.before, path) :
                      \E m \in ScalarsAt(disk["f1"].data, path) :
                          m.Line = n.Line /\ m.Value = n.Value

====
